---------------------------- MODULE Spec2Model ----------------------------
(***************************************************************************)
(* Hybrid visual product search: the offline Indexer (indexer.py), the     *)
(* three persisted artifacts, and the online Query Engine                  *)
(* (image_identifier_api.py).                                              *)
(*                                                                         *)
(* Similarities and scores are counted in hundredths (0.62 is 62).  A      *)
(* combined score is the exact rational num/den, den > 0.  A perceptual    *)
(* hash is the set of its one-bits; its stored form (the hex string) is    *)
(* the integer with those bits.  List positions are 1-based here, slot ids *)
(* and dict keys are 0-based as in the code.  The field gen of an artifact *)
(* is a ghost: the number of the build that produced it.                   *)
(***************************************************************************)
EXTENDS Integers, Sequences, FiniteSets, TLC

\* ------------------------------------------------------------ bounds
MaxGen == 2          \* builds started in one behaviour
HashBits == 12       \* width of a perceptual hash in the model
MaxVotes == 5        \* longest synthetic vote list of the scoring specification

\* ------------------------------------------------- program constants
EXACT_MATCH_HASH_THRESHOLD == 5
SIMILARITY_THRESHOLD_HIGH == 82
SIMILARITY_THRESHOLD_MEDIUM == 72
SIMILARITY_THRESHOLD_LOW == 62
K_CATEGORY == 100
K_ALL == 150
BONUS_VOTES_HIGH == 5
BONUS_VOTES_LOW == 3
TOP_N == 3

\* index.search fills the entries beyond ntotal with label -1 and the lowest
\* float (about -3.4e38); here a score of -100.00, below every inner product of
\* unit vectors by more than any weighting can make up
PAD_LABEL == -1
PAD_SCORE == 0 - 10000

Min(a, b) == IF a < b THEN a ELSE b

\* ------------------------------------------------------ exact rationals
\* a/b < c/d for b, d > 0, by integer parts and then the reciprocals of the
\* fractional parts (no product of a numerator and a denominator is formed)
RECURSIVE RatLess(_, _, _, _)
RatLess(a, b, c, d) ==
    LET qa == a \div b
        qc == c \div d
        ra == a % b
        rc == c % d
    IN  IF qa # qc THEN qa < qc
        ELSE IF rc = 0 THEN FALSE
        ELSE IF ra = 0 THEN TRUE
        ELSE RatLess(d, rc, b, ra)

RatEq(a, b, c, d) == ~RatLess(a, b, c, d) /\ ~RatLess(c, d, a, b)

ScoreLess(x, y) == RatLess(x.num, x.den, y.num, y.den)
ScoreGeq(x, t) == x.num >= t * x.den

\* ------------------------------------------------------ perceptual hash
RECURSIVE Pow2(_)
Pow2(n) == IF n = 0 THEN 1 ELSE 2 * Pow2(n - 1)

RECURSIVE SumBits(_)
SumBits(bits) ==
    IF bits = {} THEN 0
    ELSE LET b == CHOOSE x \in bits : TRUE
         IN  Pow2(b - 1) + SumBits(bits \ {b})

\* str(imagehash.phash(img)): the bit array written as one number
HashToStr(bits) == SumBits(bits)

\* imagehash.hex_to_hash: the number read back into a bit array
HexToHash(code) == {b \in 1..HashBits : (code \div Pow2(b - 1)) % 2 = 1}

\* ImageHash.__sub__: the number of differing bits
HashDistance(h1, h2) == Cardinality((h1 \ h2) \cup (h2 \ h1))

\* the loop with "distance <= best_distance": the last nearest slot wins
RECURSIVE HashScanLastWins(_, _, _, _, _, _)
HashScanLastWins(hmap, query, max_distance, i, best_match, best_distance) ==
    IF i \notin DOMAIN hmap THEN [slot |-> best_match, distance |-> best_distance]
    ELSE LET distance == HashDistance(query, HexToHash(hmap[i]))
         IN  IF distance <= max_distance /\ distance <= best_distance
             THEN HashScanLastWins(hmap, query, max_distance, i + 1, i, distance)
             ELSE HashScanLastWins(hmap, query, max_distance, i + 1, best_match, best_distance)

\* the loop with "distance < max_distance": a hash at the threshold is no match
RECURSIVE HashScanBelowThreshold(_, _, _, _, _, _)
HashScanBelowThreshold(hmap, query, max_distance, i, best_match, best_distance) ==
    IF i \notin DOMAIN hmap THEN [slot |-> best_match, distance |-> best_distance]
    ELSE LET distance == HashDistance(query, HexToHash(hmap[i]))
         IN  IF distance < max_distance /\ distance < best_distance
             THEN HashScanBelowThreshold(hmap, query, max_distance, i + 1, i, distance)
             ELSE HashScanBelowThreshold(hmap, query, max_distance, i + 1, best_match, best_distance)

\* find_exact_match_by_hash, the loop over hash_index.items() from key i on;
\* best_match = -1 stands for None, best_distance starts above every distance
RECURSIVE HashScan(_, _, _, _, _, _)
HashScan(hmap, query, max_distance, i, best_match, best_distance) ==
    IF i \notin DOMAIN hmap THEN [slot |-> best_match, distance |-> best_distance]
    ELSE LET distance == HashDistance(query, HexToHash(hmap[i]))
         IN  IF distance <= max_distance /\ distance < best_distance
             THEN HashScan(hmap, query, max_distance, i + 1, i, distance)
             ELSE HashScan(hmap, query, max_distance, i + 1, best_match, best_distance)

NoMatch == [slot |-> -1, distance |-> HashBits + 1]

FindExactMatchByHash(hash_index, query_hash, max_distance) ==
    IF ~hash_index.loaded \/ DOMAIN hash_index.map = {} THEN NoMatch
    ELSE LET r == HashScan(hash_index.map, HexToHash(query_hash), max_distance,
                           0, -1, HashBits + 1)
         IN  IF r.slot # -1 THEN r ELSE NoMatch

\* ------------------------------------------------------ re-ranking
\* Folds over s[lo..hi] split in halves, so that a list of 150 votes nests
\* eight deep.
RECURSIVE SumRange(_, _, _)
SumRange(s, lo, hi) ==
    IF lo > hi THEN 0
    ELSE IF lo = hi THEN s[lo]
    ELSE LET mid == (lo + hi) \div 2
         IN  SumRange(s, lo, mid) + SumRange(s, mid + 1, hi)

SumSeq(s) == SumRange(s, 1, Len(s))

\* position of the largest element of s[lo..hi], the first one among equals
RECURSIVE ArgMaxRange(_, _, _)
ArgMaxRange(s, lo, hi) ==
    IF lo = hi THEN lo
    ELSE LET mid == (lo + hi) \div 2
             l == ArgMaxRange(s, lo, mid)
             r == ArgMaxRange(s, mid + 1, hi)
         IN  IF s[r] > s[l] THEN r ELSE l

\* np.max(scores)
MaxSeq(s) == s[ArgMaxRange(s, 1, Len(s))]

RemoveAt(s, i) == [j \in 1..(Len(s) - 1) |-> IF j < i THEN s[j] ELSE s[j + 1]]

\* sorted(scores, reverse=True)[:n]: the largest, then the largest of the rest
RECURSIVE TopDesc(_, _)
TopDesc(s, n) ==
    IF n = 0 \/ Len(s) = 0 THEN <<>>
    ELSE LET i == ArgMaxRange(s, 1, Len(s))
         IN  <<s[i]>> \o TopDesc(RemoveAt(s, i), n - 1)

Take(s, n) == SubSeq(s, 1, Min(n, Len(s)))

\* the larger bonus only above five votes
VoteBonusAboveFive(vote_count) ==
    IF vote_count > BONUS_VOTES_HIGH THEN 22
    ELSE IF vote_count >= BONUS_VOTES_LOW THEN 21
    ELSE 20

\* no bonus at all
VoteBonusNone(vote_count) == 20

\* the vote-count bonus in twentieths: 1.10, 1.05 or 1
VoteBonus(vote_count) ==
    IF vote_count >= BONUS_VOTES_HIGH THEN 22
    ELSE IF vote_count >= BONUS_VOTES_LOW THEN 21
    ELSE 20

\* combined_score of one product from its vote list (non-empty)
CombinedScore(scores) ==
    LET vote_count == Len(scores)
        top3 == TopDesc(scores, TOP_N)
        m == Len(top3)
        \* 10 * n * m * (0.8 * max + 0.10 * avg + 0.10 * top3_avg)
        base == 8 * MaxSeq(scores) * vote_count * m
                + SumSeq(scores) * m + SumSeq(top3) * vote_count
    IN  [num |-> base * VoteBonus(vote_count), den |-> 10 * vote_count * m * 20]

\* banding with a strict comparison at the low threshold
ClassifyStrictLow(score) ==
    IF ScoreGeq(score, SIMILARITY_THRESHOLD_HIGH) THEN [status |-> "match_found", confidence |-> "HIGH"]
    ELSE IF ScoreGeq(score, SIMILARITY_THRESHOLD_MEDIUM) THEN [status |-> "match_found", confidence |-> "MEDIUM"]
    ELSE IF score.num > SIMILARITY_THRESHOLD_LOW * score.den THEN [status |-> "match_found", confidence |-> "LOW"]
    ELSE [status |-> "no_match", confidence |-> "NONE"]

\* the confidence banding of the top result's score
Classify(score) ==
    IF ScoreGeq(score, SIMILARITY_THRESHOLD_HIGH) THEN [status |-> "match_found", confidence |-> "HIGH"]
    ELSE IF ScoreGeq(score, SIMILARITY_THRESHOLD_MEDIUM) THEN [status |-> "match_found", confidence |-> "MEDIUM"]
    ELSE IF ScoreGeq(score, SIMILARITY_THRESHOLD_LOW) THEN [status |-> "match_found", confidence |-> "LOW"]
    ELSE [status |-> "no_match", confidence |-> "NONE"]


\* ------------------------------------------------------ the catalog
\* An image stands for its URL and its picture.  Images 1 and 3 are the same
\* picture listed under two products; image 2 differs from it in six bits,
\* images 4, 5 and 6 in three, one and two bits.  Product C of Catalog1 has no
\* image.
ImageIds == {1, 2, 3}

PHash(img) ==
    IF img = 2 THEN {1, 2, 3, 4, 5, 6}
    ELSE IF img = 4 THEN {1, 2, 3}
    ELSE IF img = 5 THEN {1}
    ELSE IF img = 6 THEN {1, 2}
    ELSE {}

ProductName(url) == IF url = "A" THEN "watch A" ELSE IF url = "B" THEN "bag B" ELSE "Unknown"

EmptyCatalog == <<>>
Catalog1 ==
    <<[product_url |-> "B", image_urls |-> <<3>>],
      [product_url |-> "C", image_urls |-> <<>>],
      [product_url |-> "A", image_urls |-> <<1, 2>>]>>
Catalogs == {EmptyCatalog, Catalog1}

\* three products of two images each, in three catalog orders
ProductA == [product_url |-> "A", image_urls |-> <<1, 2>>]
ProductB == [product_url |-> "B", image_urls |-> <<3, 4>>]
ProductC == [product_url |-> "C", image_urls |-> <<5, 6>>]
\* six products of one image each
SixProducts ==
    <<[product_url |-> "A", image_urls |-> <<1>>], [product_url |-> "B", image_urls |-> <<2>>],
      [product_url |-> "C", image_urls |-> <<3>>], [product_url |-> "D", image_urls |-> <<4>>],
      [product_url |-> "E", image_urls |-> <<5>>], [product_url |-> "F", image_urls |-> <<6>>]>>

ScenarioCatalogs ==
    {<<ProductA, ProductB, ProductC>>,
     <<ProductC, ProductA, ProductB>>,
     <<ProductB, ProductC, ProductA>>}

\* the sets of images whose download, decoding, hashing or encoding fails in
\* one build: none, one image, all of them
FailureScenarios == {{}, {2}, {1, 2, 3}}

\* the record download_and_encode_image builds for one image
MakeMetadata(url, product_url) ==
    [product_name |-> ProductName(product_url), product_url |-> product_url, image_url |-> url]

\* ------------------------------------------------------ Tier 2 search
\* index.search(query, k): the stored vectors by descending inner product
\* (equal scores by ascending label), then k - ntotal padding entries
RECURSIVE InsertHit(_, _)
InsertHit(h, s) ==
    IF s = <<>> THEN <<h>>
    ELSE IF h.score > Head(s).score THEN <<h>> \o s
    ELSE <<Head(s)>> \o InsertHit(h, Tail(s))

RECURSIVE RankedHits(_, _, _)
RankedHits(vecs, sim, i) ==
    IF i = 0 THEN <<>>
    ELSE InsertHit([score |-> sim[vecs[i]], idx |-> i - 1], RankedHits(vecs, sim, i - 1))

FaissSearch(index, sim, k) ==
    LET ntotal == Len(index.vecs)
        real == Take(RankedHits(index.vecs, sim, ntotal), k)
    IN  real \o [j \in 1..(k - Len(real)) |-> [score |-> PAD_SCORE, idx |-> PAD_LABEL]]

\* metadata[idx] of a Python list: a negative idx counts from the end
MetaAt(metadata, idx) == IF idx >= 0 THEN metadata[idx + 1] ELSE metadata[Len(metadata) + idx + 1]

\* position of product_url among the keys of product_matches, 0 when absent
RECURSIVE KeyPos(_, _, _)
KeyPos(product_matches, product_url, i) ==
    IF i > Len(product_matches) THEN 0
    ELSE IF product_matches[i].product_url = product_url THEN i
    ELSE KeyPos(product_matches, product_url, i + 1)

\* one pass of the loop over zip(scores[0], indices[0]) for the hit h
AddHit(product_matches, metadata, h) ==
    IF ~(h.idx < Len(metadata)) THEN product_matches
    ELSE LET meta == MetaAt(metadata, h.idx)
             similarity == h.score
             at == KeyPos(product_matches, meta.product_url, 1)
             fresh == [product_name |-> meta.product_name,
                       product_url |-> meta.product_url,
                       scores |-> <<>>,
                       best_image |-> meta.image_url,
                       best_score |-> similarity,
                       best_index |-> h.idx]
             pm == IF at = 0 THEN Append(product_matches, fresh) ELSE product_matches
             p == IF at = 0 THEN Len(pm) ELSE at
             old == pm[p]
             better == similarity > old.best_score
         IN  [pm EXCEPT ![p] =
                 [old EXCEPT !.scores = Append(old.scores, similarity),
                             !.best_score = IF better THEN similarity ELSE old.best_score,
                             !.best_image = IF better THEN meta.image_url ELSE old.best_image,
                             !.best_index = IF better THEN h.idx ELSE old.best_index]]

\* the loop over hits[lo..hi], split in halves; the first half is computed
\* before the second is entered
RECURSIVE Aggregate(_, _, _, _, _)
Aggregate(hits, metadata, lo, hi, product_matches) ==
    IF lo > hi THEN product_matches
    ELSE IF lo = hi THEN AddHit(product_matches, metadata, hits[lo])
    ELSE LET mid == (lo + hi) \div 2
             left == Aggregate(hits, metadata, lo, mid, product_matches)
         IN  IF Len(left) = 0
             THEN Aggregate(hits, metadata, mid + 1, hi, <<>>)
             ELSE Aggregate(hits, metadata, mid + 1, hi, left)

\* the entry of results for one product aggregate
MakeResult(prod_data) ==
    [product_name |-> prod_data.product_name,
     product_url |-> prod_data.product_url,
     image_url |-> prod_data.best_image,
     similarity_score |-> CombinedScore(prod_data.scores),
     max_score |-> MaxSeq(prod_data.scores),
     vote_count |-> Len(prod_data.scores),
     best_index |-> prod_data.best_index]

\* results.sort(key=similarity_score, reverse=True): stable, equal scores keep
\* their order
\* no sorting: the results stay in the order of the aggregates
InsertResultAtEnd(r, s) == s \o <<r>>

RECURSIVE InsertResult(_, _)
InsertResult(r, s) ==
    IF s = <<>> THEN <<r>>
    ELSE IF ScoreLess(Head(s).similarity_score, r.similarity_score) THEN <<r>> \o s
    ELSE <<Head(s)>> \o InsertResult(r, Tail(s))

RECURSIVE SortResults(_, _)
SortResults(results, i) ==
    IF i = 0 THEN <<>>
    ELSE InsertResult(results[i], SortResults(results, i - 1))

SearchSimilarProduct(index, metadata, sim, k) ==
    LET hits == FaissSearch(index, sim, k)
        product_matches == Aggregate(hits, metadata, 1, Len(hits), <<>>)
        results == [i \in 1..Len(product_matches) |-> MakeResult(product_matches[i])]
    IN  SortResults(results, Len(results))


\* ------------------------------------------------------ state
VARIABLES
    ipc, igen, products, pending, cur_product,   \* the Indexer process and its loop over the catalog
    failing,                                     \* the images whose download or encoding fails in this build
    embeddings, imeta, ihash, faiss_index,       \* self.embeddings, self.metadata, self.hash_index, the built index
    fIndex, fMeta, fHash,                        \* INDEX_FILE, METADATA_FILE, HASH_INDEX_FILE
    epc, model, index, metadata, hash_index,     \* the Query Engine process and its globals
    req, req2,                                   \* two /search requests being handled
    spc, votesA, votesB, ranked, sresp,          \* two synthetic product aggregates and their ranking
    workers,                                     \* the futures of the thread pool of process_products
    probe,                                       \* the last answer of /health or /stats
    hooks, processed_messages, handled           \* the webhook: its handlers, the processed_messages collection, the processing runs per message id

indexerVars == <<ipc, igen, products, pending, cur_product, failing, embeddings, imeta, ihash, faiss_index>>
fileVars == <<fIndex, fMeta, fHash>>
engineVars == <<epc, model, index, metadata, hash_index>>
scoreVars == <<spc, votesA, votesB, ranked, sresp>>
hookVars == <<hooks, processed_messages, handled>>
vars == <<indexerVars, fileVars, engineVars, req, req2, scoreVars, workers, probe, hookVars>>

EmptyDict == [k \in {} |-> 0]

NoIndexFile == [exists |-> FALSE, gen |-> 0, vecs |-> <<>>]
NoMetaFile == [exists |-> FALSE, gen |-> 0, recs |-> <<>>]
NoHashFile == [exists |-> FALSE, gen |-> 0, map |-> EmptyDict]

NoneIndex == [loaded |-> FALSE, gen |-> 0, vecs |-> <<>>]
NoneMeta == [loaded |-> FALSE, gen |-> 0, recs |-> <<>>]
NoneHash == [loaded |-> FALSE, gen |-> 0, map |-> EmptyDict]

NoScore == [num |-> 0, den |-> 1]
NoResponse == [code |-> 0, status |-> "none", confidence |-> "NONE", product_name |-> "",
               product_url |-> "", matched_image_url |-> 0, similarity_score |-> NoScore,
               top_5_results |-> <<>>, fields |-> {}]
NoUploadYet == [size |-> 0, header_ok |-> FALSE, body_ok |-> FALSE, rgb |-> FALSE,
                hash |-> {}, category_score |-> 0, sim |-> <<0, 0, 0, 0, 0, 0>>]
IdleRequest == [pc |-> "idle", upload |-> NoUploadYet, decoded |-> FALSE, hashed |-> FALSE,
                looked |-> FALSE, found |-> NoMatch, categorized |-> FALSE, embedded |-> FALSE,
                searched |-> FALSE, k |-> 0, oob |-> FALSE, detect_failed |-> FALSE,
                resp |-> NoResponse]

\* ------------------------------------------------------ the Indexer
\* VectorIndexerV2.__init__: a fresh process with empty lists
StartBuild ==
    /\ ipc = "idle"
    /\ igen < MaxGen
    /\ igen' = igen + 1
    /\ ipc' = "fetch"
    /\ embeddings' = <<>>
    /\ imeta' = <<>>
    /\ ihash' = EmptyDict
    /\ faiss_index' = <<>>
    /\ products' = <<>>
    /\ pending' = {}
    /\ cur_product' = ""
    /\ failing' = {}
    /\ UNCHANGED <<fileVars, engineVars, req, req2, scoreVars, workers, probe, hookVars>>

\* the process is gone: its memory with it
IndexerExit ==
    /\ ipc' = "idle"
    /\ embeddings' = <<>>
    /\ imeta' = <<>>
    /\ ihash' = EmptyDict
    /\ faiss_index' = <<>>
    /\ products' = <<>>
    /\ pending' = {}
    /\ cur_product' = ""
    /\ failing' = {}
    /\ igen' = igen

\* run: fetch_products raises, returns no product, or returns the catalog
FetchProducts ==
    /\ ipc = "fetch"
    /\ \/ IndexerExit
       \/ \E c \in Catalogs, f \in FailureScenarios :
            IF c = <<>> THEN IndexerExit
            ELSE /\ ipc' = "process"
                 /\ products' = c
                 /\ failing' = f
                 /\ UNCHANGED <<igen, pending, cur_product, embeddings, imeta, ihash, faiss_index>>
    /\ UNCHANGED <<fileVars, engineVars, req, req2, scoreVars, workers, probe, hookVars>>

\* process_products: the next product of the loop; its images go to the pool
SubmitProduct ==
    /\ ipc = "process"
    /\ pending = {}
    /\ products # <<>>
    /\ LET product == Head(products)
           image_urls == product.image_urls
       IN  /\ products' = Tail(products)
           /\ IF image_urls = <<>>
              THEN UNCHANGED <<pending, cur_product>>
              ELSE /\ pending' = {image_urls[i] : i \in 1..Len(image_urls)}
                   /\ cur_product' = product.product_url
    /\ UNCHANGED <<ipc, igen, failing, embeddings, imeta, ihash, faiss_index>>
    /\ UNCHANGED <<fileVars, engineVars, req, req2, scoreVars, workers, probe, hookVars>>

\* download_and_encode_image: (embedding, metadata, phash), or three None
\* when the download, the decoding, the hash or the encoder raised
DownloadAndEncodeImage(url, product_url, ok) ==
    IF ok THEN [embedding |-> url, metadata |-> <<MakeMetadata(url, product_url)>>,
                phash |-> <<HashToStr(PHash(url))>>, is_none |-> FALSE]
    ELSE [embedding |-> 0, metadata |-> <<>>, phash |-> <<>>, is_none |-> TRUE]

\* null slot: the record of a failed image is kept
AppendResultNullSlot(lists, result) ==
    LET current_index == Len(lists.embeddings)
    IN  IF ~result.is_none
        THEN [embeddings |-> Append(lists.embeddings, result.embedding),
              metadata |-> lists.metadata \o result.metadata,
              hash_index |-> (current_index :> result.phash[1]) @@ lists.hash_index]
        ELSE [lists EXCEPT !.embeddings = Append(lists.embeddings, result.embedding)]

\* the slot id read before the previous append became visible: the hash goes
\* under the key of the slot before
AppendResultStaleIndex(lists, result) ==
    LET current_index == IF lists.embeddings = <<>> THEN 0 ELSE Len(lists.embeddings) - 1
    IN  IF ~result.is_none
        THEN [embeddings |-> Append(lists.embeddings, result.embedding),
              metadata |-> lists.metadata \o result.metadata,
              hash_index |-> (current_index :> result.phash[1]) @@ lists.hash_index]
        ELSE lists

\* process_products, the body of the loop over as_completed(futures)
AppendResult(lists, result) ==
    LET current_index == Len(lists.embeddings)
    IN  IF ~result.is_none
        THEN [embeddings |-> Append(lists.embeddings, result.embedding),
              metadata |-> lists.metadata \o result.metadata,
              hash_index |-> (current_index :> result.phash[1]) @@ lists.hash_index]
        ELSE lists

\* one future completes, in any order, and its result is collected
CollectResult ==
    /\ ipc = "process"
    /\ pending # {}
    /\ \E url \in pending :
          LET result == DownloadAndEncodeImage(url, cur_product, url \notin failing)
              lists == AppendResult([embeddings |-> embeddings, metadata |-> imeta,
                                     hash_index |-> ihash], result)
          IN  /\ pending' = pending \ {url}
              /\ embeddings' = lists.embeddings
              /\ imeta' = lists.metadata
              /\ ihash' = lists.hash_index
    /\ UNCHANGED <<ipc, igen, products, cur_product, failing, faiss_index>>
    /\ UNCHANGED <<fileVars, engineVars, req, req2, scoreVars, workers, probe, hookVars>>

\* process_products as a whole: the lists after the products of a catalog have
\* been processed, for every order in which the futures of a product complete
RECURSIVE CollectInOrder(_, _, _, _, _)
CollectInOrder(product, fails, order, i, lists) ==
    IF i > Len(order) THEN lists
    ELSE LET url == product.image_urls[order[i]]
             result == DownloadAndEncodeImage(url, product.product_url, url \notin fails)
         IN  CollectInOrder(product, fails, order, i + 1, AppendResult(lists, result))

CompletionOrders(n) == {o \in [1..n -> 1..n] : \A a, b \in 1..n : a # b => o[a] # o[b]}

RECURSIVE ProcessProducts(_, _, _)
ProcessProducts(catalog, fails, lists) ==
    IF catalog = <<>> THEN {lists}
    ELSE LET product == Head(catalog)
         IN  UNION {ProcessProducts(Tail(catalog), fails,
                                    CollectInOrder(product, fails, order, 1, lists)) :
                       order \in CompletionOrders(Len(product.image_urls))}

EmptyLists == [embeddings |-> <<>>, metadata |-> <<>>, hash_index |-> [k \in {} |-> 0]]

\* create_faiss_index: one vector per embedding, in order
CreateFaissIndex(embs) == embs

\* run going on to the save with whatever was collected
BuildIndexEvenIfEmpty ==
    /\ ipc = "process"
    /\ pending = {}
    /\ products = <<>>
    /\ faiss_index' = embeddings
    /\ ipc' = "save_index"
    /\ UNCHANGED <<igen, products, pending, cur_product, failing, embeddings, imeta, ihash>>
    /\ UNCHANGED <<fileVars, engineVars, req, req2, scoreVars, workers, probe, hookVars>>

\* run, after process_products: nothing to index, or the index is built
BuildIndex ==
    /\ ipc = "process"
    /\ pending = {}
    /\ products = <<>>
    /\ IF embeddings = <<>>
       THEN IndexerExit
       ELSE /\ faiss_index' = CreateFaissIndex(embeddings)
            /\ ipc' = "save_index"
            /\ UNCHANGED <<igen, products, pending, cur_product, failing, embeddings, imeta, ihash>>
    /\ UNCHANGED <<fileVars, engineVars, req, req2, scoreVars, workers, probe, hookVars>>

\* save_index_and_metadata: faiss.write_index(index, INDEX_FILE)
SaveIndex ==
    /\ ipc = "save_index"
    /\ fIndex' = [exists |-> TRUE, gen |-> igen, vecs |-> faiss_index]
    /\ ipc' = "save_meta"
    /\ UNCHANGED <<igen, products, pending, cur_product, failing, embeddings, imeta, ihash, faiss_index>>
    /\ UNCHANGED <<fMeta, fHash, engineVars, req, req2, scoreVars, workers, probe, hookVars>>

\* save_index_and_metadata: pickle.dump(self.metadata, METADATA_FILE)
SaveMetadata ==
    /\ ipc = "save_meta"
    /\ fMeta' = [exists |-> TRUE, gen |-> igen, recs |-> imeta]
    /\ ipc' = "save_hash"
    /\ UNCHANGED <<igen, products, pending, cur_product, failing, embeddings, imeta, ihash, faiss_index>>
    /\ UNCHANGED <<fIndex, fHash, engineVars, req, req2, scoreVars, workers, probe, hookVars>>

\* save_index_and_metadata: pickle.dump(self.hash_index, HASH_INDEX_FILE); run returns
SaveHashIndex ==
    /\ ipc = "save_hash"
    /\ fHash' = [exists |-> TRUE, gen |-> igen, map |-> ihash]
    /\ IndexerExit
    /\ UNCHANGED <<fIndex, fMeta, engineVars, req, req2, scoreVars, workers, probe, hookVars>>

\* the build is interrupted between two writes: an I/O error raised by a write,
\* or the scheduler's subprocess timeout
IndexerKilled ==
    /\ ipc \in {"save_meta", "save_hash"}
    /\ IndexerExit
    /\ UNCHANGED <<fileVars, engineVars, req, req2, scoreVars, workers, probe, hookVars>>

\* ------------------------------------------------------ the thread pool
\* process_products in the steps of its threads.  Each image of the product
\* in work has a future: its worker is in download_image ("download", with the
\* number of attempts made), past it ("encode": perceptual hash, resize, CLIP
\* encoding), or has returned ("done", ok telling whether a triple or three None
\* came back).  The workers write nothing of the Indexer: the main thread alone
\* appends, one completed future at a time.  A product of the model has fewer
\* images than the pool has threads, so every submitted future runs at once.
RETRIES == 3

BuildCatalogs == {Catalog1, <<ProductA, ProductB, ProductC>>}

NoWorkers == [u \in {} |-> 0]
Submitted == [stage |-> "download", attempts |-> 0, ok |-> FALSE]

\* download_image looping forever while the download fails
DownloadAttemptOutcomeUnbounded(w, success) ==
    IF success THEN [stage |-> "encode", attempts |-> Min(w.attempts + 1, RETRIES + 1), ok |-> FALSE]
    ELSE [stage |-> "download", attempts |-> Min(w.attempts + 1, RETRIES + 1), ok |-> FALSE]

\* download_image, one pass of "for attempt in range(retries)": the image is
\* returned, or the attempt failed and the loop goes on (after a sleep), or it
\* was the last one and the exception is raised (download_and_encode_image
\* catches it and returns three None)
DownloadAttemptOutcome(w, success) ==
    LET attempt == w.attempts
    IN  IF success THEN [stage |-> "encode", attempts |-> attempt + 1, ok |-> FALSE]
        ELSE IF attempt < RETRIES - 1 THEN [stage |-> "download", attempts |-> attempt + 1, ok |-> FALSE]
        ELSE [stage |-> "done", attempts |-> attempt + 1, ok |-> FALSE]

\* run: fetch_products returns a catalog
FetchCatalog ==
    /\ ipc = "fetch"
    /\ \E c \in BuildCatalogs :
          /\ ipc' = "process"
          /\ products' = c
    /\ UNCHANGED <<igen, pending, cur_product, failing, embeddings, imeta, ihash, faiss_index>>
    /\ UNCHANGED <<fileVars, engineVars, req, req2, scoreVars, workers, probe, hookVars>>

\* process_products: the next product of the loop; one future per image
SubmitProductToPool ==
    /\ ipc = "process"
    /\ pending = {}
    /\ products # <<>>
    /\ LET product == Head(products)
           image_urls == product.image_urls
       IN  /\ products' = Tail(products)
           /\ IF image_urls = <<>>
              THEN UNCHANGED <<pending, cur_product, workers>>
              ELSE /\ pending' = {image_urls[i] : i \in 1..Len(image_urls)}
                   /\ cur_product' = product.product_url
                   /\ workers' = [url \in {image_urls[i] : i \in 1..Len(image_urls)} |-> Submitted]
    /\ UNCHANGED <<ipc, igen, failing, embeddings, imeta, ihash, faiss_index>>
    /\ UNCHANGED <<fileVars, engineVars, req, req2, scoreVars, probe, hookVars>>

\* a worker in download_image makes one attempt
DownloadAttempt ==
    /\ ipc = "process"
    /\ \E url \in DOMAIN workers, success \in BOOLEAN :
          /\ workers[url].stage = "download"
          /\ workers' = [workers EXCEPT ![url] = DownloadAttemptOutcome(workers[url], success)]
    /\ UNCHANGED <<indexerVars, fileVars, engineVars, req, req2, scoreVars, probe, hookVars>>

\* a worker past the download: hash, resize and encoding succeed, or one raises
HashAndEncode ==
    /\ ipc = "process"
    /\ \E url \in DOMAIN workers, success \in BOOLEAN :
          /\ workers[url].stage = "encode"
          /\ workers' = [workers EXCEPT ![url] = [@ EXCEPT !.stage = "done", !.ok = success]]
    /\ UNCHANGED <<indexerVars, fileVars, engineVars, req, req2, scoreVars, probe, hookVars>>

\* the main thread, for future in as_completed(futures): a completed future,
\* whichever, is taken and its result appended
CollectCompleted ==
    /\ ipc = "process"
    /\ \E url \in DOMAIN workers :
          /\ workers[url].stage = "done"
          /\ LET result == DownloadAndEncodeImage(url, cur_product, workers[url].ok)
                 lists == AppendResult([embeddings |-> embeddings, metadata |-> imeta,
                                        hash_index |-> ihash], result)
             IN  /\ pending' = pending \ {url}
                 /\ workers' = [u \in DOMAIN workers \ {url} |-> workers[u]]
                 /\ embeddings' = lists.embeddings
                 /\ imeta' = lists.metadata
                 /\ ihash' = lists.hash_index
    /\ UNCHANGED <<ipc, igen, products, cur_product, failing, faiss_index>>
    /\ UNCHANGED <<fileVars, engineVars, req, req2, scoreVars, probe, hookVars>>


\* ------------------------------------------------------ the Query Engine
\* startup_event -> load_resources: the model is loaded first
StartEngine ==
    /\ epc = "down"
    /\ model' = TRUE
    /\ epc' = "load_index"
    /\ UNCHANGED <<index, metadata, hash_index>>
    /\ UNCHANGED <<indexerVars, fileVars, req, req2, scoreVars, workers, probe, hookVars>>

\* load_resources: INDEX_FILE is missing (all three reset, return) or is read
LoadIndex ==
    /\ epc = "load_index"
    /\ IF ~fIndex.exists
       THEN /\ index' = NoneIndex
            /\ metadata' = NoneMeta
            /\ hash_index' = NoneHash
            /\ epc' = "up"
       ELSE /\ index' = [loaded |-> TRUE, gen |-> fIndex.gen, vecs |-> fIndex.vecs]
            /\ epc' = "load_meta"
            /\ UNCHANGED <<metadata, hash_index>>
    /\ UNCHANGED <<model, indexerVars, fileVars, req, req2, scoreVars, workers, probe, hookVars>>

\* load_resources: METADATA_FILE is missing (all three reset, return) or is read
LoadMetadata ==
    /\ epc = "load_meta"
    /\ IF ~fMeta.exists
       THEN /\ index' = NoneIndex
            /\ metadata' = NoneMeta
            /\ hash_index' = NoneHash
            /\ epc' = "up"
       ELSE /\ metadata' = [loaded |-> TRUE, gen |-> fMeta.gen, recs |-> fMeta.recs]
            /\ epc' = "load_hash"
            /\ UNCHANGED <<index, hash_index>>
    /\ UNCHANGED <<model, indexerVars, fileVars, req, req2, scoreVars, workers, probe, hookVars>>

\* load_resources: HASH_INDEX_FILE is read, or hash_index = {} when it is
\* missing; startup_event returns and the server takes requests
LoadHashIndex ==
    /\ epc = "load_hash"
    /\ hash_index' = IF fHash.exists
                     THEN [loaded |-> TRUE, gen |-> fHash.gen, map |-> fHash.map]
                     ELSE [loaded |-> TRUE, gen |-> 0, map |-> EmptyDict]
    /\ epc' = "up"
    /\ UNCHANGED <<model, index, metadata, indexerVars, fileVars, req, req2, scoreVars, workers, probe, hookVars>>

\* the service process ends (a restart, a deploy): globals and requests are gone
StopEngine ==
    /\ epc = "up"
    /\ epc' = "down"
    /\ model' = FALSE
    /\ index' = NoneIndex
    /\ metadata' = NoneMeta
    /\ hash_index' = NoneHash
    /\ req' = IdleRequest
    /\ req2' = IdleRequest
    /\ UNCHANGED <<indexerVars, fileVars, scoreVars, workers, probe, hookVars>>

\* ------------------------------------------------------ /search
\* An upload: its length in bytes; whether Image.open identifies it (header),
\* whether its pixel data can be loaded (body), and its mode; the perceptual
\* hash of its picture; the best category similarity detect_category_from_image
\* finds for it; and the inner product of its embedding with the embedding of
\* each catalog image.  Image.open reads the header only: the pixel data is
\* loaded by the first operation that needs it (convert, resize, phash).
MB == 1048576
MAX_IMAGE_SIZE_MB == 10
CATEGORY_FLOOR == 35

Sim(s1, s2, s3) == <<s1, s2, s3, 0, 0, 0>>

Picture(size, hash, category_score, sim) ==
    [size |-> size, header_ok |-> TRUE, body_ok |-> TRUE, rgb |-> TRUE,
     hash |-> hash, category_score |-> category_score, sim |-> sim]

NoPicture(size, header_ok, rgb) ==
    [size |-> size, header_ok |-> header_ok, body_ok |-> FALSE, rgb |-> rgb,
     hash |-> {}, category_score |-> 0, sim |-> Sim(0, 0, 0)]

\* another photo of product A, of exactly 10 MB: close to images 1 and 2,
\* weakly like image 3, unlike images 4 to 6
ScenarioQuery == Picture(MAX_IMAGE_SIZE_MB * MB, {7, 8, 9, 10, 11, 12}, 50, <<90, 85, 65, 10, 10, 10>>)

Uploads ==
    {Picture(MB, {}, 80, Sim(100, 60, 100)),                                      \* the picture of images 1 and 3
     Picture(MB, {1, 2, 3, 4, 5}, 36, Sim(70, 95, 70)),                           \* image 2 with one bit changed
     ScenarioQuery,
     Picture(MB, {6, 7, 8, 9, 10, 11, 12}, 35, Sim(10, 10, 62)),                  \* a photo somewhat like product B
     Picture(MB, {6, 7, 8, 9, 10, 11, 12}, 20, Sim(10, 10, 61)),                  \* a photo of something else
     Picture(MAX_IMAGE_SIZE_MB * MB + 1, {}, 80, Sim(100, 60, 100)),              \* one byte above 10 MB
     NoPicture(MB, FALSE, TRUE),                                                  \* not an image file
     NoPicture(MB, TRUE, FALSE),                                                  \* a truncated palette image
     NoPicture(MB, TRUE, TRUE)}                                                   \* a truncated RGB image

ErrorResponse(code) == [NoResponse EXCEPT !.code = code, !.status = "error"]

\* process_uploaded_image: "too_large", "not_image" (both raised as ValueError)
\* or "ok"
ProcessUploadedImage(upload) ==
    IF upload.size > MAX_IMAGE_SIZE_MB * MB THEN "too_large"
    ELSE IF ~upload.header_ok THEN "not_image"
    ELSE IF ~upload.rgb /\ ~upload.body_ok THEN "not_image"
    ELSE "ok"

\* a category accepted at the floor already
DetectCategoryAtFloor(upload) == upload.category_score >= CATEGORY_FLOOR

\* detect_category_from_image: a category name (TRUE) or None (FALSE)
DetectCategoryFromImage(upload) == upload.category_score > CATEGORY_FLOOR

\* readiness ignoring the index and the metadata
ServiceReadyModelOnly(m, idx, meta) == m

\* search_product, line 284: not (model is None or index is None or metadata is None)
ServiceReady(m, idx, meta) == m /\ idx.loaded /\ meta.loaded

\* the handler is entered: 503 at once when the service is not ready
Received(upload) ==
    IF ~ServiceReady(model, index, metadata)
    THEN [IdleRequest EXCEPT !.pc = "done", !.upload = upload, !.resp = ErrorResponse(503)]
    ELSE [IdleRequest EXCEPT !.pc = "tier1", !.upload = upload]

\* the exact_match response built from metadata[match_idx]
ExactMatchResponse(matched_meta) ==
    [code |-> 200, status |-> "exact_match", confidence |-> "EXACT",
     product_name |-> matched_meta.product_name, product_url |-> matched_meta.product_url,
     matched_image_url |-> matched_meta.image_url,
     similarity_score |-> [num |-> 100, den |-> 1], top_5_results |-> <<>>,
     fields |-> {"status", "product_name", "product_url", "matched_image_url",
                 "confidence", "similarity_score", "message"}]

\* search_product, STEP 1: the upload is validated (ValueError: 400) and hashed
\* (phash loads the pixel data: OSError on a truncated body, answered 500), the
\* hash index is scanned; a found slot is answered from metadata[match_idx],
\* which raises IndexError (answered 500) when the slot is beyond the metadata
AfterTier1(rq) ==
    IF ProcessUploadedImage(rq.upload) # "ok"
    THEN [rq EXCEPT !.pc = "done", !.resp = ErrorResponse(400)]
    ELSE IF ~rq.upload.body_ok
    THEN [rq EXCEPT !.pc = "done", !.decoded = TRUE, !.resp = ErrorResponse(500)]
    ELSE LET query_hash == HashToStr(rq.upload.hash)
             exact_match == FindExactMatchByHash(hash_index, query_hash, EXACT_MATCH_HASH_THRESHOLD)
             hit == exact_match.slot # -1
             inside == exact_match.slot < Len(metadata.recs)
         IN  [rq EXCEPT
                !.decoded = TRUE,
                !.hashed = TRUE,
                !.looked = TRUE,
                !.found = exact_match,
                !.oob = hit /\ ~inside,
                !.pc = IF hit THEN "done" ELSE "tier2",
                !.resp = IF ~hit THEN NoResponse
                         ELSE IF inside THEN ExactMatchResponse(MetaAt(metadata.recs, exact_match.slot))
                         ELSE ErrorResponse(500)]

\* every result listed, not the first five
TopFiveUncut(results) ==
    [i \in 1..Len(results) |->
        [product_name |-> results[i].product_name, product_url |-> results[i].product_url,
         similarity_score |-> results[i].similarity_score, image_url |-> results[i].image_url]]

\* the entries of top_5_results
TopFive(results) ==
    [i \in 1..Min(5, Len(results)) |->
        [product_name |-> results[i].product_name, product_url |-> results[i].product_url,
         similarity_score |-> results[i].similarity_score, image_url |-> results[i].image_url]]

\* search_product after search_similar_product returned results
Tier2Response(results) ==
    IF results = <<>>
    THEN [NoResponse EXCEPT !.code = 200, !.status = "no_match",
                            !.fields = {"status", "message", "similarity_score"}]
    ELSE LET top_match == results[1]
             b == Classify(top_match.similarity_score)
         IN  IF b.status = "no_match"
             THEN [NoResponse EXCEPT !.code = 200, !.status = "no_match",
                                     !.similarity_score = top_match.similarity_score,
                                     !.top_5_results = TopFive(results),
                                     !.fields = {"status", "message", "similarity_score", "top_5_results"}]
             ELSE [code |-> 200, status |-> b.status, confidence |-> b.confidence,
                   product_name |-> top_match.product_name, product_url |-> top_match.product_url,
                   matched_image_url |-> top_match.image_url,
                   similarity_score |-> top_match.similarity_score,
                   top_5_results |-> TopFive(results),
                   fields |-> {"status", "product_name", "product_url", "matched_image_url",
                               "confidence", "similarity_score", "message", "top_5_results"}]

\* some label the index search returned lies beyond the metadata
BeyondMetadata(hits, recs) == \E i \in 1..Len(hits) : hits[i].idx >= Len(recs)

\* search_product, STEP 2: category detection, query embedding, index search
\* with k = 100 or 150, aggregation, banding.  sim is the inner product of the
\* query embedding with each stored image's embedding.  metadata[-1] of an
\* empty list raises IndexError (answered 500).
SearchWith(rq, detected_category) ==
    LET k_value == IF detected_category THEN K_CATEGORY ELSE K_ALL
        sim == rq.upload.sim
        hits == FaissSearch(index, sim, k_value)
    IN  IF metadata.recs = <<>>
        THEN [rq EXCEPT !.pc = "done", !.categorized = TRUE, !.embedded = TRUE, !.searched = TRUE,
                        !.k = k_value, !.oob = TRUE, !.resp = ErrorResponse(500)]
        ELSE [rq EXCEPT !.pc = "done", !.categorized = TRUE, !.embedded = TRUE, !.searched = TRUE,
                        !.k = k_value,
                        !.oob = BeyondMetadata(hits, metadata.recs),
                        !.resp = Tier2Response(SearchSimilarProduct(index, metadata.recs, sim, k_value))]

AfterTier2(rq) == SearchWith(rq, DetectCategoryFromImage(rq.upload))

\* STEP 2 of a request in which detect_category_from_image raised inside (the
\* encoder failing on the category texts or on the image): its except clause
\* returns None
AfterTier2DetectionFailed(rq) == [SearchWith(rq, FALSE) EXCEPT !.detect_failed = TRUE]

\* category detection that may or may not name a category for the same image
Tier2AnyCategory ==
    /\ epc = "up"
    /\ req.pc = "tier2"
    /\ \E detected_category \in BOOLEAN : req' = SearchWith(req, detected_category)
    /\ UNCHANGED <<indexerVars, fileVars, engineVars, req2, scoreVars, workers, probe, hookVars>>

ReceiveSearch ==
    /\ epc = "up"
    /\ req.pc = "idle"
    /\ \E upload \in Uploads : req' = Received(upload)
    /\ UNCHANGED <<indexerVars, fileVars, engineVars, req2, scoreVars, workers, probe, hookVars>>

Tier1 ==
    /\ epc = "up"
    /\ req.pc = "tier1"
    /\ req' = AfterTier1(req)
    /\ UNCHANGED <<indexerVars, fileVars, engineVars, req2, scoreVars, workers, probe, hookVars>>

Tier2 ==
    /\ epc = "up"
    /\ req.pc = "tier2"
    /\ req' = AfterTier2(req)
    /\ UNCHANGED <<indexerVars, fileVars, engineVars, req2, scoreVars, workers, probe, hookVars>>

Tier2DetectionFails ==
    /\ epc = "up"
    /\ req.pc = "tier2"
    /\ req' = AfterTier2DetectionFailed(req)
    /\ UNCHANGED <<indexerVars, fileVars, engineVars, req2, scoreVars, workers, probe, hookVars>>

\* the response is sent and the request's data discarded
SendResponse ==
    /\ req.pc = "done"
    /\ req' = IdleRequest
    /\ UNCHANGED <<indexerVars, fileVars, engineVars, req2, scoreVars, workers, probe, hookVars>>

\* a second request, handled while the first is in progress or answered
ReceiveSearch2 ==
    /\ epc = "up"
    /\ req2.pc = "idle"
    /\ \E upload \in Uploads : req2' = Received(upload)
    /\ UNCHANGED <<indexerVars, fileVars, engineVars, req, scoreVars, workers, probe, hookVars>>

Tier1Of2 ==
    /\ epc = "up"
    /\ req2.pc = "tier1"
    /\ req2' = AfterTier1(req2)
    /\ UNCHANGED <<indexerVars, fileVars, engineVars, req, scoreVars, workers, probe, hookVars>>

Tier2Of2 ==
    /\ epc = "up"
    /\ req2.pc = "tier2"
    /\ req2' = AfterTier2(req2)
    /\ UNCHANGED <<indexerVars, fileVars, engineVars, req, scoreVars, workers, probe, hookVars>>

SendResponse2 ==
    /\ req2.pc = "done"
    /\ req2' = IdleRequest
    /\ UNCHANGED <<indexerVars, fileVars, engineVars, req, scoreVars, workers, probe, hookVars>>

\* ------------------------------------------------------ /health and /stats
NoProbe == [endpoint |-> "none", code |-> 0, model_loaded |-> FALSE, index_loaded |-> FALSE,
            hash_index_loaded |-> FALSE, total_vectors |-> 0, total_images |-> 0, hash_index_size |-> 0]

\* a health check that drops the index (to be loaded again on demand)
HealthCheckUnloading ==
    /\ epc = "up"
    /\ probe' = [NoProbe EXCEPT !.endpoint = "health", !.code = 200, !.model_loaded = model]
    /\ index' = NoneIndex
    /\ UNCHANGED <<epc, model, metadata, hash_index>>
    /\ UNCHANGED <<indexerVars, fileVars, req, req2, scoreVars, workers, hookVars>>

\* health_check: always answered, from the globals as they are
HealthCheck ==
    /\ epc = "up"
    /\ probe' = [NoProbe EXCEPT !.endpoint = "health", !.code = 200,
                                !.model_loaded = model,
                                !.index_loaded = index.loaded,
                                !.hash_index_loaded = (hash_index.loaded /\ DOMAIN hash_index.map # {}),
                                !.total_images = IF metadata.loaded THEN Len(metadata.recs) ELSE 0]
    /\ UNCHANGED <<indexerVars, fileVars, engineVars, req, req2, scoreVars, workers, hookVars>>

\* get_stats: 503 without index or metadata, else the three sizes
GetStats ==
    /\ epc = "up"
    /\ probe' = IF ~index.loaded \/ ~metadata.loaded
                THEN [NoProbe EXCEPT !.endpoint = "stats", !.code = 503]
                ELSE [NoProbe EXCEPT !.endpoint = "stats", !.code = 200,
                                     !.total_vectors = Len(index.vecs),
                                     !.total_images = Len(metadata.recs),
                                     !.hash_index_size = IF hash_index.loaded
                                                         THEN Cardinality(DOMAIN hash_index.map) ELSE 0]
    /\ UNCHANGED <<indexerVars, fileVars, engineVars, req, req2, scoreVars, workers, hookVars>>

\* ------------------------------------------------------ the webhook
\* main.py, /webhook: Flask serves each delivery in a thread of its own; two
\* handlers are modelled.  A WhatsApp message has an id and is a text or an
\* image; a message delivered again keeps its id and its content.
MaxRuns == 2         \* processing runs of all messages in one behaviour

HookSlots == {1, 2}

TextMessage(id) == [id |-> id, kind |-> "text", upload |-> NoUploadYet]
ImageMessage(id, upload) == [id |-> id, kind |-> "image", upload |-> upload]

Messages ==
    {TextMessage("t1"),
     ImageMessage("i1", Picture(MB, {}, 80, Sim(100, 60, 100))),                    \* a catalog picture
     ImageMessage("i2", ScenarioQuery),                                             \* another photo of product A
     ImageMessage("i3", Picture(MB, {6, 7, 8, 9, 10, 11, 12}, 20, Sim(10, 10, 61))), \* something else
     ImageMessage("i4", NoPicture(MB, TRUE, TRUE))}                                 \* a truncated image

MessageIds == {m.id : m \in Messages}

NoMessage == [id |-> "", kind |-> "none", upload |-> NoUploadYet]
IdleHook == [pc |-> "idle", msg |-> NoMessage, answer |-> "none", reply |-> "none",
             service_status |-> "none", service_code |-> 0]

\* search_product as a whole, as the webhook's POST sees it: the response
SearchProduct(upload) ==
    LET received == Received(upload)
    IN  IF received.pc = "done" THEN received.resp
        ELSE LET tier1 == AfterTier1(received)
             IN  IF tier1.pc = "done" THEN tier1.resp ELSE AfterTier2(tier1).resp

\* img.save(format='JPEG', quality=95) of the opened image: a complete RGB
\* JPEG; the recompression may move the perceptual hash by a bit
SavedAsJpeg(upload, moved) ==
    [upload EXCEPT !.size = MB, !.rgb = TRUE,
                   !.hash = IF moved THEN (upload.hash \ {HashBits}) \cup ({HashBits} \ upload.hash)
                            ELSE upload.hash]

\* webhook, lines 660-726: the branch on result.get('status'); a response of
\* the service has no 'matches' field, so the second branch, when entered,
\* finds an empty list
ReplyForStatus(status) ==
    IF status = "exact_match" THEN "product_found"
    ELSE IF status = "similar_matches" THEN "no_matching_watches"
    ELSE "no_matching_watches"

\* the processing runs triggered so far, over all message ids
RunsSoFar == handled["t1"] + handled["i1"] + handled["i2"] + handled["i3"] + handled["i4"]

\* a delivery arrives and a handler thread takes it
HookReceive ==
    /\ \E h \in HookSlots, msg \in Messages :
          /\ hooks[h].pc = "idle"
          /\ RunsSoFar < MaxRuns
          /\ hooks' = [hooks EXCEPT ![h] = [IdleHook EXCEPT !.pc = "check", !.msg = msg]]
    /\ UNCHANGED <<processed_messages, handled>>
    /\ UNCHANGED <<indexerVars, fileVars, engineVars, req, req2, scoreVars, workers, probe>>

\* is_message_processed: a known id is answered "ignored / already processed"
HookCheck ==
    /\ \E h \in HookSlots :
          /\ hooks[h].pc = "check"
          /\ hooks' = [hooks EXCEPT ![h] =
                          IF hooks[h].msg.id \in processed_messages
                          THEN [@ EXCEPT !.pc = "done", !.answer = "ignored"]
                          ELSE [@ EXCEPT !.pc = "route"]]
    /\ UNCHANGED <<processed_messages, handled>>
    /\ UNCHANGED <<indexerVars, fileVars, engineVars, req, req2, scoreVars, workers, probe>>

\* a text: mark_message_processed (a duplicate key error is logged and
\* swallowed), then the conversation, order and reply logic
HookText ==
    /\ \E h \in HookSlots :
          /\ hooks[h].pc = "route"
          /\ hooks[h].msg.kind = "text"
          /\ processed_messages' = processed_messages \cup {hooks[h].msg.id}
          /\ handled' = [handled EXCEPT ![hooks[h].msg.id] = @ + 1]
          /\ hooks' = [hooks EXCEPT ![h] = [@ EXCEPT !.pc = "done", !.answer = "success",
                                                      !.reply = "text_reply"]]
    /\ UNCHANGED <<indexerVars, fileVars, engineVars, req, req2, scoreVars, workers, probe>>

\* an image: opened and saved as JPEG ("couldn't process" when that raises),
\* posted to /search (an exception of the POST gives the "issue" reply), and
\* the reply chosen by the status code and the status; the message id is not
\* recorded
HookImage ==
    /\ \E h \in HookSlots, moved \in BOOLEAN, reached \in BOOLEAN :
          /\ hooks[h].pc = "route"
          /\ hooks[h].msg.kind = "image"
          /\ handled' = [handled EXCEPT ![hooks[h].msg.id] = @ + 1]
          /\ LET upload == hooks[h].msg.upload
                 response == SearchProduct(SavedAsJpeg(upload, moved))
             IN  hooks' = [hooks EXCEPT ![h] =
                    IF ~upload.header_ok \/ ~upload.body_ok
                    THEN [@ EXCEPT !.pc = "done", !.answer = "error", !.reply = "cannot_process"]
                    ELSE IF ~reached
                    THEN [@ EXCEPT !.pc = "done", !.answer = "success", !.reply = "issue"]
                    ELSE [@ EXCEPT !.pc = "done", !.answer = "success",
                                   !.service_code = response.code,
                                   !.service_status = response.status,
                                   !.reply = IF response.code = 200
                                             THEN ReplyForStatus(response.status)
                                             ELSE "issue"]]
    /\ UNCHANGED processed_messages
    /\ UNCHANGED <<indexerVars, fileVars, engineVars, req, req2, scoreVars, workers, probe>>

\* the handler has returned
HookReturn ==
    /\ \E h \in HookSlots :
          /\ hooks[h].pc = "done"
          /\ hooks' = [hooks EXCEPT ![h] = IdleHook]
    /\ UNCHANGED <<processed_messages, handled>>
    /\ UNCHANGED <<indexerVars, fileVars, engineVars, req, req2, scoreVars, workers, probe>>


\* ------------------------------------------------------ synthetic aggregates
\* Two product aggregates with given vote lists go through the re-ranking, the
\* sort and the banding of search_similar_product and search_product.  Votes
\* arrive in the order of the index search, best first.
VoteVals == {0 - 10, 10, 61, 62, 72, 82, 95}

VoteLists(maxlen) ==
    {s \in UNION {[1..n -> VoteVals] : n \in 1..maxlen} :
        \A i \in 1..(Len(s) - 1) : s[i] >= s[i + 1]}

\* the aggregate search_similar_product holds for a product with these votes
SyntheticAggregate(product_url, scores) ==
    [product_name |-> ProductName(product_url), product_url |-> product_url, scores |-> scores,
     best_image |-> 1, best_score |-> scores[1], best_index |-> 0]

\* search_similar_product, lines 250-278, on the two aggregates
RankProducts ==
    /\ spc = "input"
    /\ LET results == <<MakeResult(SyntheticAggregate("A", votesA)),
                        MakeResult(SyntheticAggregate("B", votesB))>>
       IN  ranked' = SortResults(results, Len(results))
    /\ spc' = "ranked"
    /\ UNCHANGED <<votesA, votesB, sresp>>
    /\ UNCHANGED <<indexerVars, fileVars, engineVars, req, req2, workers, probe, hookVars>>

\* search_product, lines 341-418, on the ranked list
BandTop ==
    /\ spc = "ranked"
    /\ sresp' = Tier2Response(ranked)
    /\ spc' = "banded"
    /\ UNCHANGED <<votesA, votesB, ranked>>
    /\ UNCHANGED <<indexerVars, fileVars, engineVars, req, req2, workers, probe, hookVars>>

\* ------------------------------------------------------ specifications
InitSystem ==
    /\ ipc = "idle"
    /\ igen = 0
    /\ products = <<>>
    /\ pending = {}
    /\ cur_product = ""
    /\ failing = {}
    /\ embeddings = <<>>
    /\ imeta = <<>>
    /\ ihash = EmptyDict
    /\ faiss_index = <<>>
    /\ fIndex = NoIndexFile
    /\ fMeta = NoMetaFile
    /\ fHash = NoHashFile
    /\ epc = "down"
    /\ model = FALSE
    /\ index = NoneIndex
    /\ metadata = NoneMeta
    /\ hash_index = NoneHash
    /\ req = IdleRequest
    /\ req2 = IdleRequest
    /\ workers = NoWorkers
    /\ probe = NoProbe
    /\ hooks = [h \in HookSlots |-> IdleHook]
    /\ processed_messages = {}
    /\ handled = [id \in MessageIds |-> 0]

Init ==
    /\ InitSystem
    /\ spc = "off"
    /\ votesA = <<>>
    /\ votesB = <<>>
    /\ ranked = <<>>
    /\ sresp = NoResponse

Next ==
    \/ StartBuild
    \/ FetchProducts
    \/ SubmitProduct
    \/ CollectResult
    \/ BuildIndex
    \/ SaveIndex
    \/ SaveMetadata
    \/ SaveHashIndex
    \/ IndexerKilled
    \/ StartEngine
    \/ LoadIndex
    \/ LoadMetadata
    \/ LoadHashIndex
    \/ StopEngine
    \/ ReceiveSearch
    \/ Tier1
    \/ Tier2
    \/ Tier2DetectionFails
    \/ SendResponse

Spec == Init /\ [][Next]_vars

InitScore ==
    /\ InitSystem
    /\ spc = "input"
    /\ votesA \in VoteLists(MaxVotes)
    /\ votesB \in VoteLists(2)
    /\ ranked = <<>>
    /\ sresp = NoResponse

NextScore ==
    \/ RankProducts
    \/ BandTop

SpecScore == InitScore /\ [][NextScore]_vars

\* The Query Engine after a completed startup, serving two requests at a time
\* from the artifacts of one completed build (with or without the hash index
\* file); no build runs.
ServedBuilds ==
    UNION ({ProcessProducts(Catalog1, fails, EmptyLists) : fails \in {{}, {2}}}
           \cup {ProcessProducts(catalog, {}, EmptyLists) : catalog \in ScenarioCatalogs}
           \cup {ProcessProducts(SixProducts, {}, EmptyLists)})

InitServe ==
    /\ ipc = "idle"
    /\ igen = 1
    /\ products = <<>>
    /\ pending = {}
    /\ cur_product = ""
    /\ failing = {}
    /\ embeddings = <<>>
    /\ imeta = <<>>
    /\ ihash = EmptyDict
    /\ faiss_index = <<>>
    /\ \E lists \in ServedBuilds, hash_file \in BOOLEAN :
          /\ fIndex = [exists |-> TRUE, gen |-> 1, vecs |-> CreateFaissIndex(lists.embeddings)]
          /\ fMeta = [exists |-> TRUE, gen |-> 1, recs |-> lists.metadata]
          /\ fHash = IF hash_file THEN [exists |-> TRUE, gen |-> 1, map |-> lists.hash_index]
                     ELSE NoHashFile
          /\ index = [loaded |-> TRUE, gen |-> 1, vecs |-> CreateFaissIndex(lists.embeddings)]
          /\ metadata = [loaded |-> TRUE, gen |-> 1, recs |-> lists.metadata]
          /\ hash_index = IF hash_file THEN [loaded |-> TRUE, gen |-> 1, map |-> lists.hash_index]
                          ELSE [loaded |-> TRUE, gen |-> 0, map |-> EmptyDict]
    /\ epc = "up"
    /\ model = TRUE
    /\ req = IdleRequest
    /\ req2 = IdleRequest
    /\ spc = "off"
    /\ workers = NoWorkers
    /\ probe = NoProbe
    /\ hooks = [h \in HookSlots |-> IdleHook]
    /\ processed_messages = {}
    /\ handled = [id \in MessageIds |-> 0]
    /\ votesA = <<>>
    /\ votesB = <<>>
    /\ ranked = <<>>
    /\ sresp = NoResponse

NextServe ==
    \/ ReceiveSearch
    \/ Tier1
    \/ Tier2
    \/ SendResponse
    \/ ReceiveSearch2
    \/ Tier1Of2
    \/ Tier2Of2
    \/ SendResponse2

SpecServe == InitServe /\ [][NextServe]_vars

\* The Query Engine after a completed startup that found no artifact, or the
\* artifacts of one build: two /search requests at a time, and /health and
\* /stats called at any moment.
ProbedBuilds == ProcessProducts(Catalog1, {}, EmptyLists) \cup ProcessProducts(SixProducts, {}, EmptyLists)

InitProbe ==
    /\ ipc = "idle"
    /\ igen = 1
    /\ products = <<>>
    /\ pending = {}
    /\ cur_product = ""
    /\ failing = {}
    /\ embeddings = <<>>
    /\ imeta = <<>>
    /\ ihash = EmptyDict
    /\ faiss_index = <<>>
    /\ \/ /\ fIndex = NoIndexFile
          /\ fMeta = NoMetaFile
          /\ fHash = NoHashFile
          /\ index = NoneIndex
          /\ metadata = NoneMeta
          /\ hash_index = NoneHash
       \/ \E lists \in ProbedBuilds :
             /\ fIndex = [exists |-> TRUE, gen |-> 1, vecs |-> CreateFaissIndex(lists.embeddings)]
             /\ fMeta = [exists |-> TRUE, gen |-> 1, recs |-> lists.metadata]
             /\ fHash = [exists |-> TRUE, gen |-> 1, map |-> lists.hash_index]
             /\ index = [loaded |-> TRUE, gen |-> 1, vecs |-> CreateFaissIndex(lists.embeddings)]
             /\ metadata = [loaded |-> TRUE, gen |-> 1, recs |-> lists.metadata]
             /\ hash_index = [loaded |-> TRUE, gen |-> 1, map |-> lists.hash_index]
    /\ epc = "up"
    /\ model = TRUE
    /\ req = IdleRequest
    /\ req2 = IdleRequest
    /\ workers = NoWorkers
    /\ probe = NoProbe
    /\ hooks = [h \in HookSlots |-> IdleHook]
    /\ processed_messages = {}
    /\ handled = [id \in MessageIds |-> 0]
    /\ spc = "off"
    /\ votesA = <<>>
    /\ votesB = <<>>
    /\ ranked = <<>>
    /\ sresp = NoResponse

NextProbe ==
    \/ ReceiveSearch
    \/ Tier1
    \/ Tier2
    \/ SendResponse
    \/ ReceiveSearch2
    \/ Tier1Of2
    \/ Tier2Of2
    \/ SendResponse2
    \/ HealthCheck
    \/ GetStats

SpecProbe == InitProbe /\ [][NextProbe]_vars

\* The webhook in front of a Query Engine that is up, with no artifacts or with
\* those of a build of the three products A, B, C: deliveries of the messages,
\* each possibly more than once, taken by two handler threads.
HookBuilds ==
    {lists \in ProcessProducts(<<ProductA, ProductB, ProductC>>, {}, EmptyLists) :
        \A i \in 1..Len(lists.metadata) : lists.metadata[i].image_url = i}

InitHook ==
    /\ ipc = "idle"
    /\ igen = 1
    /\ products = <<>>
    /\ pending = {}
    /\ cur_product = ""
    /\ failing = {}
    /\ embeddings = <<>>
    /\ imeta = <<>>
    /\ ihash = EmptyDict
    /\ faiss_index = <<>>
    /\ \/ /\ fIndex = NoIndexFile
          /\ fMeta = NoMetaFile
          /\ fHash = NoHashFile
          /\ index = NoneIndex
          /\ metadata = NoneMeta
          /\ hash_index = NoneHash
       \/ \E lists \in HookBuilds :
             /\ fIndex = [exists |-> TRUE, gen |-> 1, vecs |-> CreateFaissIndex(lists.embeddings)]
             /\ fMeta = [exists |-> TRUE, gen |-> 1, recs |-> lists.metadata]
             /\ fHash = [exists |-> TRUE, gen |-> 1, map |-> lists.hash_index]
             /\ index = [loaded |-> TRUE, gen |-> 1, vecs |-> CreateFaissIndex(lists.embeddings)]
             /\ metadata = [loaded |-> TRUE, gen |-> 1, recs |-> lists.metadata]
             /\ hash_index = [loaded |-> TRUE, gen |-> 1, map |-> lists.hash_index]
    /\ epc = "up"
    /\ model = TRUE
    /\ req = IdleRequest
    /\ req2 = IdleRequest
    /\ workers = NoWorkers
    /\ probe = NoProbe
    /\ hooks = [h \in HookSlots |-> IdleHook]
    /\ processed_messages = {}
    /\ handled = [id \in MessageIds |-> 0]
    /\ spc = "off"
    /\ votesA = <<>>
    /\ votesB = <<>>
    /\ ranked = <<>>
    /\ sresp = NoResponse

NextHook ==
    \/ HookReceive
    \/ HookCheck
    \/ HookText
    \/ HookImage
    \/ HookReturn

SpecHook == InitHook /\ [][NextHook]_vars

\* One build of a fresh Indexer process from the fetch on, in the steps of its
\* worker threads: every download attempt and every encoding may fail.
InitBuild ==
    /\ ipc = "fetch"
    /\ igen = 1
    /\ products = <<>>
    /\ pending = {}
    /\ cur_product = ""
    /\ failing = {}
    /\ embeddings = <<>>
    /\ imeta = <<>>
    /\ ihash = EmptyDict
    /\ faiss_index = <<>>
    /\ fIndex = NoIndexFile
    /\ fMeta = NoMetaFile
    /\ fHash = NoHashFile
    /\ epc = "down"
    /\ model = FALSE
    /\ index = NoneIndex
    /\ metadata = NoneMeta
    /\ hash_index = NoneHash
    /\ req = IdleRequest
    /\ req2 = IdleRequest
    /\ workers = NoWorkers
    /\ probe = NoProbe
    /\ hooks = [h \in HookSlots |-> IdleHook]
    /\ processed_messages = {}
    /\ handled = [id \in MessageIds |-> 0]
    /\ spc = "off"
    /\ votesA = <<>>
    /\ votesB = <<>>
    /\ ranked = <<>>
    /\ sresp = NoResponse

NextBuild ==
    \/ FetchCatalog
    \/ SubmitProductToPool
    \/ DownloadAttempt
    \/ HashAndEncode
    \/ CollectCompleted
    \/ BuildIndex
    \/ SaveIndex
    \/ SaveMetadata
    \/ SaveHashIndex

SpecBuild == InitBuild /\ [][NextBuild]_vars

\* every thread that can take a step takes one eventually: each download
\* attempt returns or times out, each encoding returns or raises
SpecBuildFair == SpecBuild /\ WF_vars(NextBuild)


\* ------------------------------------------------------ properties
Answered == req.pc = "done"
Tier1Found == req.looked /\ req.found.slot # -1

\* the loaded triple comes from one build
OneBuildLoaded ==
    /\ index.loaded /\ metadata.loaded /\ hash_index.loaded
    /\ index.gen = metadata.gen
    /\ hash_index.gen = metadata.gen

\* C1: in every /search request, a slot found by the Tier-1 hash lookup gives
\* the response exact_match with no query embedding computed and no index search
\* invoked; the index search runs only in requests whose Tier-1 lookup found
\* nothing.
C1_Tier1ShortCircuit ==
    /\ (Answered /\ Tier1Found) =>
          (req.resp.status = "exact_match" /\ ~req.embedded /\ ~req.searched)
    /\ (req.embedded \/ req.searched) => (req.looked /\ req.found.slot = -1)

\* C2 as stated: for a built index, a query whose hash equals the hash stored
\* for slot s is answered exact_match with the product of metadata[s].
C2_ExactMatchOfEverySlot ==
    \A s \in DOMAIN hash_index.map :
        (Answered /\ req.looked /\ OneBuildLoaded
            /\ HashToStr(req.upload.hash) = hash_index.map[s])
        => /\ req.resp.status = "exact_match"
           /\ req.resp.product_name = metadata.recs[s + 1].product_name
           /\ req.resp.product_url = metadata.recs[s + 1].product_url

\* C2 amended: for a built index, a query whose hash equals the hash stored for
\* slot s, where no earlier slot stores the same hash, is answered exact_match
\* with the product and the image of metadata[s]; among slots storing the same
\* hash the first in insertion order is the one answered.
C2_ExactMatchOfFirstSlot ==
    \A s \in DOMAIN hash_index.map :
        (Answered /\ req.looked /\ OneBuildLoaded
            /\ HashToStr(req.upload.hash) = hash_index.map[s]
            /\ \A t \in DOMAIN hash_index.map : t < s => hash_index.map[t] # hash_index.map[s])
        => /\ req.resp.status = "exact_match"
           /\ req.found.slot = s
           /\ req.resp.product_name = metadata.recs[s + 1].product_name
           /\ req.resp.product_url = metadata.recs[s + 1].product_url
           /\ req.resp.matched_image_url = metadata.recs[s + 1].image_url

\* a stored picture was submitted to an index that holds it twice, and answered
C2_Witness ==
    /\ Answered /\ req.looked /\ OneBuildLoaded
    /\ req.resp.status = "exact_match"
    /\ Cardinality({s \in DOMAIN hash_index.map : hash_index.map[s] = HashToStr(req.upload.hash)}) = 2

\* C3: at every moment of a build, after each collected result and whatever
\* the completion order and the skipped images, the embedding list, the
\* metadata list and the hash index have the same number of entries, and so has
\* the FAISS index built from the embeddings.
C3_EqualLengths ==
    /\ Len(embeddings) = Len(imeta)
    /\ Cardinality(DOMAIN ihash) = Len(imeta)
    /\ ipc \in {"save_index", "save_meta", "save_hash"} => Len(faiss_index) = Len(imeta)

\* a build that skipped an image and kept two has reached the save
C3_Witness ==
    /\ ipc = "save_index"
    /\ failing = {2}
    /\ Len(imeta) = 2

\* C4: the three artifact files a reader can open at any moment stem from the
\* same build; the embedding index and the hash index are never newer than the
\* metadata.
C4_AtomicPersist ==
    (fIndex.exists /\ fMeta.exists /\ fHash.exists) =>
        (fIndex.gen = fMeta.gen /\ fHash.gen = fMeta.gen)

\* C5: every search that is answered (with all three artifacts loaded) is
\* answered from an embedding index, metadata and hash index of one build
\* generation.
C5_OneGenerationServed ==
    (Answered /\ req.resp.code = 200 /\ hash_index.gen # 0) =>
        (index.gen = metadata.gen /\ hash_index.gen = metadata.gen)

\* C6: a request handled while the model, the index or the metadata is not
\* loaded is answered 503 in the step that receives it, with no hash computed,
\* no hash lookup and no embedding search; and 503 is answered only then.
C6_NotReadyIs503 ==
    /\ (req.pc # "idle" /\ (~model \/ ~index.loaded \/ ~metadata.loaded)) =>
          /\ Answered
          /\ req.resp.code = 503
          /\ ~req.hashed /\ ~req.looked /\ ~req.embedded /\ ~req.searched
    /\ req.resp.code = 503 => (~model \/ ~index.loaded \/ ~metadata.loaded)

\* a request was received after a load that found an artifact missing
C6_Witness ==
    /\ Answered
    /\ req.resp.code = 503
    /\ model
    /\ ~index.loaded

\* C7: a request whose Tier-1 or Tier-2 lookup resolved a slot id beyond the
\* metadata is answered with a failure, never with exact_match, match_found or
\* no_match.
C7_RefuseMismatchedSet ==
    (Answered /\ req.oob) => req.resp.code \in {500, 503}


NothingSearched(rq) ==
    ~rq.hashed /\ ~rq.looked /\ ~rq.categorized /\ ~rq.embedded /\ ~rq.searched

\* C12: with the service ready, an upload above 10 MB is answered 400 before it
\* is decoded, an undecodable upload is answered 400, in both cases with no
\* hash, hash lookup, category detection or embedding search; an upload of
\* exactly 10 MB passes the size check.
C12_InvalidUploadIs400 ==
    (req.pc = "done" /\ req.resp.code # 503) =>
        /\ req.upload.size > MAX_IMAGE_SIZE_MB * MB =>
              (req.resp.code = 400 /\ ~req.decoded /\ NothingSearched(req))
        /\ (~req.upload.header_ok \/ ~req.upload.body_ok) =>
              (req.resp.code = 400 /\ NothingSearched(req))
        /\ (req.upload.size = MAX_IMAGE_SIZE_MB * MB /\ req.upload.header_ok /\ req.upload.body_ok) =>
              req.resp.code # 400

\* the images a catalog lists
CatalogImages(catalog) ==
    UNION {{catalog[i].image_urls[j] : j \in 1..Len(catalog[i].image_urls)} : i \in 1..Len(catalog)}

IndexedImages == {imeta[i].image_url : i \in 1..Len(imeta)}

\* the result of a failed image is collected in this step
FailedImageCollected ==
    /\ ipc = "process"
    /\ pending \ pending' # {}
    /\ (pending \ pending') \subseteq failing

\* C13: collecting the result of a failed image leaves the embedding list, the
\* metadata list and the hash index as they were and takes nothing but that
\* image from the work left, the build staying in process_products; and a
\* build that reaches the save has indexed every image of the catalog that
\* did not fail.
C13_FailedImageSkipped ==
    /\ [][FailedImageCollected =>
            /\ embeddings' = embeddings /\ imeta' = imeta /\ ihash' = ihash
            /\ ipc' = "process" /\ products' = products
            /\ pending' \subseteq pending /\ Cardinality(pending \ pending') = 1]_vars
    /\ [](ipc = "save_index" => IndexedImages = CatalogImages(Catalog1) \ failing)

\* the failure of image 2 was collected while image 1 of the same product is
\* still to come
C13_Witness ==
    /\ ipc = "process"
    /\ failing = {2}
    /\ cur_product = "A"
    /\ pending = {1}
    /\ Len(imeta) = 1

\* C14: a build that ends in total failure (the fetch raises, the catalog is
\* empty, or no image was processed successfully) ends without entering the
\* save, and no artifact file changes while a build is fetching or processing:
\* the files of the previous build stay as they were.
C14_TotalFailureWritesNothing ==
    /\ [][(ipc = "fetch" \/ ipc = "process") => fileVars' = fileVars]_vars
    /\ [][(ipc = "fetch" /\ ipc' # "fetch") =>
            (ipc' = "idle" \/ (ipc' = "process" /\ products' # <<>>))]_vars
    /\ [][(ipc = "process" /\ ipc' # "process") =>
            (IF embeddings = <<>> THEN ipc' = "idle" ELSE ipc' = "save_index")]_vars

\* the second build has ended and the three files are still those of the first
C14_Witness ==
    /\ igen = 2
    /\ ipc = "idle"
    /\ fIndex.exists /\ fMeta.exists /\ fHash.exists
    /\ fIndex.gen = 1 /\ fMeta.gen = 1 /\ fHash.gen = 1

\* C15: every request that passed the readiness check and the validation of
\* the upload is answered 200 with a status that is one of exact_match,
\* match_found and no_match.
C15_DefinitiveStatus ==
    (req.pc = "done" /\ req.resp.code # 503 /\ ProcessUploadedImage(req.upload) = "ok") =>
        /\ req.resp.code = 200
        /\ req.resp.status \in {"exact_match", "match_found", "no_match"}

\* the ranked list of the request's query, and the products that have a record
RankingOf(rq) == SearchSimilarProduct(index, metadata.recs, rq.upload.sim, rq.k)
IndexedProducts == {metadata.recs[i].product_url : i \in 1..Len(metadata.recs)}

ArtifactAbsentAtLoad == ~index.loaded \/ ~metadata.loaded \/ hash_index.gen = 0

\* C17: a request (with a valid image) handled after a load that found any one
\* of the three artifact files absent is answered 503, not served from the
\* other two.
C17_MatchedSetOr503 ==
    (req.pc = "done" /\ ArtifactAbsentAtLoad
        /\ ProcessUploadedImage(req.upload) = "ok" /\ req.upload.body_ok) =>
        req.resp.code = 503

\* the loaded metadata is a build of three products of two images each:
\* images 1, 2 of A, images 3, 4 of B, images 5, 6 of C
ScenarioLoaded ==
    /\ Len(metadata.recs) = 6
    /\ \A i \in 1..6 :
          metadata.recs[i].product_url =
              (IF metadata.recs[i].image_url \in {1, 2} THEN "A"
               ELSE IF metadata.recs[i].image_url \in {3, 4} THEN "B" ELSE "C")

\* position of a product in top_5_results, 0 when absent
TopPosition(rq, product_url) ==
    IF \E i \in 1..Len(rq.resp.top_5_results) : rq.resp.top_5_results[i].product_url = product_url
    THEN CHOOSE i \in 1..Len(rq.resp.top_5_results) : rq.resp.top_5_results[i].product_url = product_url
    ELSE 0

\* C18: three products of two images each, no stored hash within the
\* exact-match threshold of the query, A's images at 0.9 and 0.85, B's at 0.65
\* (and 0.1), C's at 0.1: the top result is A with a combined score of about
\* 0.8875 (within 0.01) and confidence HIGH, B is in top_5_results, and C ranks
\* below A and B.
C18_ScenarioTopIsA ==
    (req.pc = "done" /\ ScenarioLoaded /\ req.upload = ScenarioQuery) =>
        /\ req.found.slot = -1
        /\ req.resp.status = "match_found"
        /\ req.resp.confidence = "HIGH"
        /\ req.resp.product_url = "A"
        /\ 100 * req.resp.similarity_score.num >= 8775 * req.resp.similarity_score.den
        /\ 100 * req.resp.similarity_score.num <= 8975 * req.resp.similarity_score.den
        /\ TopPosition(req, "A") = 1
        /\ TopPosition(req, "B") = 2
        /\ TopPosition(req, "C") = 3

\* the nearest stored hash as stated: the minimum distance over all slots, the
\* first slot in insertion order that has it, nothing when the minimum
\* exceeds max_distance or no hash is stored
StatedNearest(hmap, query, max_distance) ==
    LET slots == DOMAIN hmap
        dist(i) == Cardinality({b \in 1..HashBits : (b \in query) # (b \in HexToHash(hmap[i]))})
    IN  IF slots = {} THEN NoMatch
        ELSE LET dmin == CHOOSE d \in {dist(i) : i \in slots} : \A j \in slots : d <= dist(j)
                 first == CHOOSE i \in slots : dist(i) = dmin /\ \A j \in slots : dist(j) = dmin => i <= j
             IN  IF dmin <= max_distance THEN [slot |-> first, distance |-> dmin] ELSE NoMatch

\* C19: for the loaded hash index and the hash of the upload,
\* find_exact_match_by_hash returns, for every max_distance, the first slot in
\* insertion order at the minimum Hamming distance when that minimum is at
\* most max_distance, and nothing otherwise (also for an empty hash index);
\* /search looks up with max_distance 5, so a nearest hash at distance 5
\* matches and one at distance 6 does not.  (Stated on the first request while
\* no other is in progress: the lookup reads the hash index and the upload
\* only.)
C19_NearestWithinThreshold ==
    (req.looked /\ req2.pc = "idle") =>
        /\ \A max_distance \in 0..HashBits :
              FindExactMatchByHash(hash_index, HashToStr(req.upload.hash), max_distance)
                  = StatedNearest(hash_index.map, req.upload.hash, max_distance)
        /\ req.found = StatedNearest(hash_index.map, req.upload.hash, 5)
        /\ StatedNearest(hash_index.map, req.upload.hash, HashBits).distance = 5 => req.found.slot # -1
        /\ StatedNearest(hash_index.map, req.upload.hash, HashBits).distance = 6 => req.found.slot = -1

\* a lookup whose nearest stored hash is at distance exactly 5 found its slot
C19_Witness ==
    /\ req.looked
    /\ req.found.slot # -1
    /\ req.found.distance = 5

\* C20: two builds of the same catalog in which the same images succeeded
\* give every image the same slot: the metadata list a build is about to save
\* equals the one saved by an earlier build that indexed the same images.
C20_SameSlotsInEveryBuild ==
    (ipc = "save_index" /\ fMeta.exists
        /\ {fMeta.recs[i].image_url : i \in 1..Len(fMeta.recs)} = IndexedImages) =>
        fMeta.recs = imeta

\* the hits of the request's index search and the aggregates built from them
HitsOf(rq) == FaissSearch(index, rq.upload.sim, rq.k)
AggregatesOf(rq) == Aggregate(HitsOf(rq), metadata.recs, 1, Len(HitsOf(rq)), <<>>)

\* the hits on slots of a product, in hit order: the slot id names a record,
\* and the record carries the product's url
HitsOfProduct(hits, recs, product_url) ==
    SelectSeq(hits, LAMBDA h : h.idx >= 0 /\ h.idx < Len(recs) /\ recs[h.idx + 1].product_url = product_url)

ScoresOf(hits) == [i \in 1..Len(hits) |-> hits[i].score]

\* C22: the aggregates of a Tier-2 search group the slot-level hits by
\* product_url: one aggregate per product_url that has a hit, its votes the
\* similarity scores of exactly the hits on that product's slots, max_score the
\* largest of them, and the reported image_url that of the earliest hit with
\* the largest score.
C22_AggregatesByProductUrl ==
    (req.searched /\ req2.pc = "idle" /\ metadata.recs # <<>>) =>
        LET hits == HitsOf(req)
            recs == metadata.recs
            product_matches == AggregatesOf(req)
            hit_urls == {recs[hits[i].idx + 1].product_url :
                            i \in {j \in 1..Len(hits) : hits[j].idx >= 0 /\ hits[j].idx < Len(recs)}}
        IN  /\ {product_matches[i].product_url : i \in 1..Len(product_matches)} = hit_urls
            /\ Len(product_matches) = Cardinality(hit_urls)
            /\ \A i \in 1..Len(product_matches) :
                  LET own == HitsOfProduct(hits, recs, product_matches[i].product_url)
                      result == MakeResult(product_matches[i])
                  IN  /\ product_matches[i].scores = ScoresOf(own)
                      /\ \A j \in 1..Len(own) : own[j].score <= result.max_score
                      /\ \E j \in 1..Len(own) :
                            /\ own[j].score = result.max_score
                            /\ \A l \in 1..(j - 1) : own[l].score < own[j].score
                            /\ result.image_url = recs[own[j].idx + 1].image_url

\* C26: in a Tier-2 search every vote counted for a product comes from a
\* distinct indexed image of that product: a product's vote_count is at most
\* the number of slots whose metadata carries its product_url, and the votes of
\* all products together are at most the number of indexed vectors, also when
\* k (100 or 150) exceeds that number and the index search pads its result.
C26_VotesAreIndexedImages ==
    (req.searched /\ req2.pc = "idle" /\ metadata.recs # <<>>) =>
        LET ranking == RankingOf(req)
            recs == metadata.recs
            slots(product_url) == {j \in 1..Len(recs) : recs[j].product_url = product_url}
        IN  /\ \A i \in 1..Len(ranking) :
                  ranking[i].vote_count <= Cardinality(slots(ranking[i].product_url))
            /\ SumSeq([i \in 1..Len(ranking) |-> ranking[i].vote_count]) <= Len(index.vecs)

\* C23: the ranked list of a Tier-2 search is in non-increasing order of
\* similarity_score and holds each product_url once; a match_found response
\* carries the first element as its primary answer, and top_5_results is the
\* first min(5, n) elements in the same order.
C23_RankedListAndTopFive ==
    (req.pc = "done" /\ req.searched /\ req.resp.code = 200 /\ req2.pc = "idle") =>
        LET ranking == RankingOf(req)
            top == req.resp.top_5_results
        IN  /\ \A i, j \in 1..Len(ranking) : i < j =>
                  /\ ~ScoreLess(ranking[i].similarity_score, ranking[j].similarity_score)
                  /\ ranking[i].product_url # ranking[j].product_url
            /\ req.resp.status = "match_found" =>
                  /\ req.resp.product_url = ranking[1].product_url
                  /\ req.resp.product_name = ranking[1].product_name
                  /\ req.resp.similarity_score = ranking[1].similarity_score
                  /\ req.resp.matched_image_url = ranking[1].image_url
                  /\ Len(top) = Min(5, Len(ranking))
                  /\ \A i \in 1..Len(top) :
                        /\ top[i].product_url = ranking[i].product_url
                        /\ top[i].similarity_score = ranking[i].similarity_score
                        /\ top[i].image_url = ranking[i].image_url
                  /\ top[1].product_url = req.resp.product_url

\* a match was found among six ranked products, five of them listed
C23_Witness ==
    /\ req.pc = "done"
    /\ req2.pc = "idle"
    /\ req.resp.status = "match_found"
    /\ Cardinality(IndexedProducts) = 6
    /\ Len(req.resp.top_5_results) = 5

\* C25: after the startup load, no step of a /search, /health or /stats
\* request changes the model handle, the index, the metadata or the hash
\* index, however the requests interleave; a step of one request leaves the
\* other request's data alone, and the response of each request is the one
\* search_product computes from its own upload and the loaded artifacts.
C25_RequestsLeaveGlobalsAlone ==
    /\ [][engineVars' = engineVars /\ fileVars' = fileVars]_vars
    /\ [][(req' = req) \/ (req2' = req2)]_vars
    /\ [][(probe' # probe) => (req' = req /\ req2' = req2)]_vars
    /\ [](/\ req.pc = "done" => req.resp = SearchProduct(req.upload)
          /\ req2.pc = "done" => req2.resp = SearchProduct(req2.upload))

\* two different searches are in progress, one answered and one between its
\* tiers, after /stats was answered from the loaded artifacts
C25_Witness ==
    /\ req.pc = "done" /\ req.searched
    /\ req2.pc = "tier2"
    /\ req.upload # req2.upload
    /\ probe.endpoint = "stats" /\ probe.code = 200 /\ probe.total_vectors = 6

\* C30: the index search of Tier 2 is called with k = 100 exactly when
\* category detection returned a category, that is when the best category
\* similarity is strictly above 0.35 and detection did not fail, and with
\* k = 150 otherwise; a request whose detection raised is searched and answered
\* as one with no category detected.
C30_KFollowsDetection ==
    req.searched =>
        LET detected == req.upload.category_score > CATEGORY_FLOOR /\ ~req.detect_failed
        IN  /\ req.k = (IF detected THEN 100 ELSE 150)
            /\ req.detect_failed =>
                  /\ req.k = K_ALL
                  /\ req.pc = "done"
                  /\ req.resp = SearchWith(req, FALSE).resp
                  /\ ~req.oob => req.resp.code = 200

\* detection raised on a picture whose category would have been detected; the
\* request was answered from a search with k = 150
C30_Witness ==
    /\ req.pc = "done"
    /\ req.detect_failed
    /\ req.upload.category_score > CATEGORY_FLOOR
    /\ req.k = K_ALL
    /\ req.resp.code = 200

\* ------------------------------------------------------ webhook properties
\* C28: when the search service answered 200, the image handler's reply fits
\* the status: exact_match gives the found product, match_found the matched
\* similar products, and the 'no matching watches found' reply is sent only on
\* no_match.
C28_ReplyFitsStatus ==
    \A h \in HookSlots :
        (hooks[h].pc = "done" /\ hooks[h].service_code = 200) =>
            /\ hooks[h].service_status = "exact_match" => hooks[h].reply = "product_found"
            /\ hooks[h].service_status = "match_found" => hooks[h].reply = "similar_products"
            /\ hooks[h].reply = "no_matching_watches" => hooks[h].service_status = "no_match"

\* C29: each message id triggers processing at most once, for texts and for
\* images, also when two deliveries of an id are handled at the same time; a
\* handler that checks an id whose processing has been triggered before is
\* answered 'ignored'.
C29_ProcessedAtMostOnce ==
    /\ \A id \in MessageIds : handled[id] <= 1
    /\ \A h \in HookSlots :
          (hooks[h].pc = "done" /\ hooks[h].answer = "ignored") => handled[hooks[h].msg.id] >= 1

\* ------------------------------------------------------ thread pool properties
\* slot i of the three lists in work stems from one image
SlotOfOneImage(i) ==
    /\ embeddings[i + 1] = imeta[i + 1].image_url
    /\ ihash[i] = HashToStr(PHash(imeta[i + 1].image_url))

\* C21: under every interleaving of the worker threads of a build, the slot
\* ids written are exactly 0..n-1 (no gap, no duplicate), a step of the build
\* never changes or removes a slot written earlier, and for every slot i the
\* hash under key i, the i-th embedding and the i-th metadata record come
\* from the image named by metadata[i].image_url; the files written hold the
\* same slots.
C21_SlotsAlignedInEveryInterleaving ==
    /\ [](/\ DOMAIN ihash = 0..(Len(imeta) - 1)
          /\ Len(embeddings) = Len(imeta)
          /\ \A i \in 0..(Len(imeta) - 1) : SlotOfOneImage(i)
          /\ \A i, j \in 1..Len(imeta) : i # j => imeta[i].image_url # imeta[j].image_url)
    /\ [][(ipc = "process") =>
            /\ Len(imeta') >= Len(imeta)
            /\ SubSeq(imeta', 1, Len(imeta)) = imeta
            /\ SubSeq(embeddings', 1, Len(embeddings)) = embeddings
            /\ \A i \in DOMAIN ihash : i \in DOMAIN ihash' /\ ihash'[i] = ihash[i]]_vars
    /\ []((fIndex.exists /\ fMeta.exists /\ fHash.exists) =>
            /\ DOMAIN fHash.map = 0..(Len(fMeta.recs) - 1)
            /\ Len(fIndex.vecs) = Len(fMeta.recs)
            /\ \A i \in 1..Len(fMeta.recs) :
                  /\ fIndex.vecs[i] = fMeta.recs[i].image_url
                  /\ fHash.map[i - 1] = HashToStr(PHash(fMeta.recs[i].image_url)))

\* five of six images were indexed, image 2 ahead of image 1, while image 6
\* is still in its second download attempt and image 5 has failed
C21_Witness ==
    /\ ipc = "process"
    /\ Len(imeta) = 4
    /\ imeta[1].image_url = 2
    /\ imeta[2].image_url = 1
    /\ DOMAIN workers = {5, 6}
    /\ workers[5].stage = "done" /\ ~workers[5].ok
    /\ workers[6].stage = "download" /\ workers[6].attempts = 1

\* C24: download_image makes at most RETRIES attempts for one url; a worker
\* leaves it at the first successful attempt and makes no attempt afterwards;
\* it raises (the worker returning three None) only at the failure of attempt
\* number RETRIES; every future submitted is eventually collected and the
\* build ends.
C24_BoundedRetriesAndTermination ==
    /\ [](\A url \in DOMAIN workers :
            /\ workers[url].attempts <= RETRIES
            /\ workers[url].stage = "download" => workers[url].attempts < RETRIES
            /\ workers[url].stage = "encode" => workers[url].attempts >= 1)
    /\ [][\A url \in (DOMAIN workers) \cap (DOMAIN workers') :
            LET w == workers[url]
                after == workers'[url]
            IN  /\ w.stage # "download" => after.attempts = w.attempts
                /\ after.attempts = w.attempts \/ after.attempts = w.attempts + 1
                /\ (w.stage = "download" /\ after.stage = "encode") => after.attempts = w.attempts + 1
                /\ (w.stage = "download" /\ after.stage = "done") =>
                      (after.attempts = RETRIES /\ w.attempts = RETRIES - 1 /\ ~after.ok)]_vars
    /\ \A url \in 1..6 : (url \in DOMAIN workers) ~> (url \notin DOMAIN workers)
    /\ <>(ipc = "idle")

\* the download of image 1 has failed three times and was given up, that of
\* image 2 succeeded at the second attempt
C24_Witness ==
    /\ ipc = "process"
    /\ DOMAIN workers = {1, 2}
    /\ workers[1] = [stage |-> "done", attempts |-> RETRIES, ok |-> FALSE]
    /\ workers[2].stage = "encode"
    /\ workers[2].attempts = 2

\* ------------------------------------------------------ scoring properties
\* the score is above the 1.0 (100 hundredths) of an exact_match response
AboveExactMatch(score) == RatLess(100, 1, score.num, score.den)

\* C27: with per-image similarities in [-1, 1], no Tier-2 response carries a
\* similarity_score above the 1.0 of an exact_match response, neither as the
\* score of the response nor in an entry of top_5_results.
C27_ScoreAtMostOne ==
    /\ \A i \in 1..Len(ranked) : ~AboveExactMatch(ranked[i].similarity_score)
    /\ ~AboveExactMatch(sresp.similarity_score)
    /\ \A i \in 1..Len(sresp.top_5_results) : ~AboveExactMatch(sresp.top_5_results[i].similarity_score)

\* the entry of the ranked list for a product
ResultOf(product_url) ==
    ranked[CHOOSE i \in 1..Len(ranked) : ranked[i].product_url = product_url]

AtLeast(score, t) == ~RatLess(score.num, score.den, t, 1)
Below(score, t) == RatLess(score.num, score.den, t, 1)

\* C8: the top result's combined score s is banded completely and
\* exclusively: s >= 0.82 match_found/HIGH, 0.72 <= s < 0.82 match_found/MEDIUM,
\* 0.62 <= s < 0.72 match_found/LOW, s < 0.62 no_match; so a score of exactly
\* 0.62 is match_found/LOW and a score one unit below is no_match.
C8_Banding ==
    spc = "banded" =>
        LET s == ranked[1].similarity_score
            found(c) == sresp.status = "match_found" /\ sresp.confidence = c
        IN  /\ AtLeast(s, 82) <=> found("HIGH")
            /\ (AtLeast(s, 72) /\ Below(s, 82)) <=> found("MEDIUM")
            /\ (AtLeast(s, 62) /\ Below(s, 72)) <=> found("LOW")
            /\ Below(s, 62) <=> sresp.status = "no_match"
            /\ sresp.status \in {"match_found", "no_match"}

\* the top score is exactly the low threshold and is banded LOW
C8_Witness ==
    /\ spc = "banded"
    /\ RatEq(ranked[1].similarity_score.num, ranked[1].similarity_score.den, 62, 1)
    /\ sresp.status = "match_found"
    /\ sresp.confidence = "LOW"

\* the sum of the m largest votes of S, over all choices of m positions
SumOfLargest(S, m) ==
    LET sums == {SumSeq([j \in 1..m |-> S[pos[j]]]) :
                    pos \in {p \in [1..m -> 1..Len(S)] : \A a, b \in 1..m : a < b => p[a] < p[b]}}
    IN  CHOOSE v \in sums : \A w \in sums : w <= v

\* C9: for a product with the non-empty vote list S, similarity_score equals
\* (0.8 max(S) + 0.10 mean(S) + 0.10 mean of the up-to-3 largest votes) times
\* 1.10 if |S| >= 5, 1.05 if 3 <= |S| <= 4, 1 if |S| <= 2.
StatedScore(S) ==
    LET n == Len(S)
        m == IF n < 3 THEN n ELSE 3
        largest == CHOOSE x \in {S[i] : i \in 1..n} : \A i \in 1..n : S[i] <= x
        total == SumRange(S, 1, n)
        factor == IF n >= 5 THEN 110 ELSE IF n >= 3 /\ n <= 4 THEN 105 ELSE 100
    IN  [num |-> (8 * largest * n * m + total * m + SumOfLargest(S, m) * n) * factor,
         den |-> 10 * n * m * 100]

C9_CombinedScore ==
    spc # "input" =>
        /\ RatEq(ResultOf("A").similarity_score.num, ResultOf("A").similarity_score.den,
                 StatedScore(votesA).num, StatedScore(votesA).den)
        /\ RatEq(ResultOf("B").similarity_score.num, ResultOf("B").similarity_score.den,
                 StatedScore(votesB).num, StatedScore(votesB).den)
        /\ ResultOf("A").vote_count = Len(votesA)
        /\ ResultOf("B").vote_count = Len(votesB)

\* a product with five unequal votes and one with two were scored
C9_Witness ==
    /\ spc = "ranked"
    /\ Len(votesA) = 5
    /\ votesA[1] # votesA[5]
    /\ Len(votesB) = 2

SameMax == MaxSeq(votesA) = MaxSeq(votesB)

=============================================================================
